---- MODULE Spec2Model ----
(***************************************************************************)
(* Model of opda.utils: the beta interval routines                         *)
(*   beta_equal_tailed_interval, beta_highest_density_interval,            *)
(*   beta_equal_tailed_coverage, beta_highest_density_coverage.            *)
(*                                                                         *)
(* Numbers.  A point of [0,1] is an integer i in 0..GridSize standing for  *)
(* i/GridSize; a probability is an integer q in 0..One standing for q/One; *)
(* a shape parameter is an integer A standing for A/ShapeUnit (so 2, 4, 5, *)
(* 8 are 0.5, 1, 1.25, 2).  The beta evaluator (scipy.stats.beta) is the   *)
(* beta law integrated by the midpoint rule on the grid, its cdf rounded   *)
(* to the probability resolution, and its ppf is the generalized inverse   *)
(* of that cdf.  As with binary floating point, the cdf is therefore flat  *)
(* wherever the density is too low for the probability resolution.         *)
(***************************************************************************)
EXTENDS Integers, Sequences, FiniteSets, TLC

\* ------------------------------------------------------------------ bounds
GridSize == 64      \* points of [0,1] are i/GridSize
Half == 8           \* probability 1/2, in probability units
MaxLen == 2         \* longest array argument
MaxAtol == 2        \* largest search tolerance, in grid units
MaxTotal == 3       \* largest n_total of a binomial sample
MaxSamples == 8     \* largest n of dkw_epsilon
MaxArgs == 2        \* most arrays passed to sort_by_first
MaxSize == 3        \* longest array passed to sort_by_first
MaxValue == 2       \* largest element of an array passed to sort_by_first
MaxCallers == 2     \* callers that sample and reseed side by side
MaxCalls == 4       \* calls of sample and set_seed, all callers together
MaxDraw == 2        \* largest size of a sample
MaxSeed == 1        \* largest seed

One == 2 * Half
ShapeUnit == 2 * 2
FQ == 2 ^ 10        \* fixed-point scale of the density weights
IntMax == 2 ^ 30 + (2 ^ 30 - 1)

NaN == -2           \* the evaluator's answer for invalid shape parameters

\* ------------------------------------------------------- integer helpers
Abs(n) == IF n < 0 THEN 0 - n ELSE n
Min(m, n) == IF m <= n THEN m ELSE n
Max(m, n) == IF m >= n THEN m ELSE n

RECURSIVE Pow(_, _)
Pow(n, k) == IF k = 0 THEN 1 ELSE n * Pow(n, k - 1)

RECURSIVE Gcd(_, _)
Gcd(m, n) == IF n = 0 THEN m ELSE Gcd(n, m % n)

RECURSIVE IsqrtIter(_, _, _)
IsqrtIter(n, l, h) ==
    IF l >= h THEN l
    ELSE LET m == (l + h + 1) \div 2
         IN  IF m * m <= n THEN IsqrtIter(n, m, h) ELSE IsqrtIter(n, l, m - 1)

Isqrt(n) == IsqrtIter(n, 0, Min(n, 46340))

\* np.clip(v, l, h) == minimum(maximum(v, l), h)
Clip(v, l, h) == Min(Max(v, l), h)

\* ------------------------------------------- the beta evaluator (scipy)
\* v^(n/ShapeUnit) for a fixed-point v in 0..FQ
RECURSIVE PowQ(_, _)
PowQ(v, n) ==
    IF n < 0 THEN (FQ * FQ) \div PowQ(v, 0 - n)
    ELSE IF n = 0 THEN FQ
    ELSE IF n >= ShapeUnit THEN (v * PowQ(v, n - ShapeUnit)) \div FQ
    ELSE LET r2 == Isqrt(v * FQ)
             r4 == Isqrt(r2 * FQ)
         IN  IF n = 1 THEN r4 ELSE IF n = 2 THEN r2 ELSE (r2 * r4) \div FQ

\* the shape parameters with a table: the fractional ones of the beta
\* routines and the whole ones that binomial_confidence_interval builds
ValidShapes == {2, 4, 5, 8} \cup {ShapeUnit * k : k \in 1..MaxTotal}

\* unnormalized density t^(a-1) (1-t)^(b-1) at the midpoint of cell k
Weight(A, B, k) ==
    LET t == ((2 * k + 1) * FQ) \div (2 * GridSize)
    IN  (PowQ(t, A - ShapeUnit) * PowQ(FQ - t, B - ShapeUnit)) \div FQ

WeightTab ==
    [A \in ValidShapes, B \in ValidShapes |->
        [k \in 0..(GridSize - 1) |-> Weight(A, B, k)]]

RECURSIVE SumTo(_, _)
SumTo(w, i) == IF i = 0 THEN 0 ELSE SumTo(w, i - 1) + w[i - 1]

CumTab ==
    [A \in ValidShapes, B \in ValidShapes |->
        [i \in 0..GridSize |-> SumTo(WeightTab[A, B], i)]]

\* beta.cdf at every grid point, rounded to the probability resolution
CdfTab ==
    [A \in ValidShapes, B \in ValidShapes |->
        LET total == CumTab[A, B][GridSize]
        IN  [i \in 0..GridSize |->
                (2 * CumTab[A, B][i] * One + total) \div (2 * total)]]

\* stats.beta(a, b).cdf(i): nan when a shape parameter is not positive
BetaCdf(A, B, i) ==
    IF A <= 0 \/ B <= 0 THEN NaN ELSE CdfTab[A, B][i]

\* the least grid point whose cdf reaches h/2 (h in half units, 0 < h < 2)
PpfTab ==
    [A \in ValidShapes, B \in ValidShapes |->
        [h \in 1..(2 * One - 1) |->
            CHOOSE i \in 0..GridSize :
                /\ 2 * CdfTab[A, B][i] >= h
                /\ \A j \in 0..(i - 1) : 2 * CdfTab[A, B][j] < h]]

\* stats.beta(a, b).ppf(h / 2): h is a probability in half units;
\* ppf(0) is 0 and ppf(1) is 1
BetaPpf2(A, B, h) ==
    IF h <= 0 THEN 0
    ELSE IF h >= 2 * One THEN GridSize
    ELSE PpfTab[A, B][h]

\* stats.beta(a, b).ppf(q)
BetaPpf(A, B, q) == BetaPpf2(A, B, 2 * q)

\* ------------------------------------------------------------ the mode
\* np.clip((a - 1) / (a + b - 2), 0., 1.), rounded to the grid; a zero
\* denominator gives +inf or -inf, which clip to 1 or 0
Mode(A, B) ==
    LET num == A - ShapeUnit
        den == A + B - 2 * ShapeUnit
    IN  IF den = 0 THEN (IF num > 0 THEN GridSize ELSE 0)
        ELSE IF num * den <= 0 THEN 0
        ELSE IF Abs(num) >= Abs(den) THEN GridSize
        ELSE (2 * GridSize * Abs(num) + Abs(den)) \div (2 * Abs(den))

\* ----------------------------------------------- the density surrogate
\* x**((a-1)/(b-1)) * (1-x), compared exactly.  With (a-1)/(b-1) = p/q in
\* lowest terms, the |q|-th power of the surrogate at i/GridSize is
\* PdfNum/PdfDen (up to a factor common to all points); a zero PdfDen is
\* +inf (0 raised to a negative power).  For b = 1 the exponent is +inf
\* and the surrogate is 0 everywhere.
ExpP(A, B) ==
    LET g == Gcd(Abs(A - ShapeUnit), Abs(B - ShapeUnit))
    IN  IF g = 0 THEN 0 ELSE (A - ShapeUnit) \div g

ExpQ(A, B) ==
    LET g == Gcd(Abs(A - ShapeUnit), Abs(B - ShapeUnit))
    IN  IF g = 0 THEN 0 ELSE (B - ShapeUnit) \div g

SameSign(A, B) == (ExpP(A, B) >= 0) = (ExpQ(A, B) > 0)

PdfNum(A, B, i) ==
    IF ExpQ(A, B) = 0 THEN 0
    ELSE Pow(GridSize - i, Abs(ExpQ(A, B)))
         * (IF SameSign(A, B) THEN Pow(i, Abs(ExpP(A, B))) ELSE 1)

PdfDen(A, B, i) ==
    IF ExpQ(A, B) = 0 \/ SameSign(A, B) THEN 1
    ELSE Pow(i, Abs(ExpP(A, B)))

\* fault: x_pdf < y_pdf where the code has x_pdf <= y_pdf
PdfLeStrict(A, B, i, j) ==
    PdfNum(A, B, i) * PdfDen(A, B, j) < PdfNum(A, B, j) * PdfDen(A, B, i)

\* x_pdf <= y_pdf
PdfLe(A, B, i, j) ==
    PdfNum(A, B, i) * PdfDen(A, B, j) <= PdfNum(A, B, j) * PdfDen(A, B, i)

\* x_pdf < y_pdf
PdfLt(A, B, i, j) == ~PdfLe(A, B, j, i)

\* ------------------------------------------------------ the iteration count
RECURSIVE NIterFrom(_, _, _)
NIterFrom(w, tol, n) ==
    IF tol * Pow(2, n) >= w THEN n ELSE NIterFrom(w, tol, n + 1)

\* fault: without max(2, .), no iteration runs for a bracket below atol
NIterUnfloored(w, tol) == NIterFrom(w, tol, 0)

\* int(np.ceil(np.log2(max(2, w / atol))))
NIter(w, tol) == NIterFrom(w, tol, 1)

RECURSIVE SeqMaxTo(_, _)
SeqMaxTo(s, n) == IF n = 1 THEN s[1] ELSE Max(SeqMaxTo(s, n - 1), s[n])

\* fault: the bracket of the first element in place of the widest one
SeqFirst(s) == s[1]

\* np.max over the broadcast elements
SeqMax(s) == SeqMaxTo(s, Len(s))

\* ------------------------------------------------------------- the routines
Routines ==
    {"beta_equal_tailed_interval", "beta_highest_density_interval",
     "beta_equal_tailed_coverage", "beta_highest_density_coverage"}

IsInterval(f) ==
    f \in {"beta_equal_tailed_interval", "beta_highest_density_interval"}

IsHighestDensity(f) ==
    f \in {"beta_highest_density_interval", "beta_highest_density_coverage"}

\* the checks are "np.any(cond)" over the broadcast elements
NonPositiveA(s) == \E i \in 1..Len(s) : s[i].a <= 0
NonPositiveB(s) == \E i \in 1..Len(s) : s[i].b <= 0

\* (coverage < 0.) | (coverage > 1.): both comparisons are false for nan
BadCoverage(s) ==
    \E i \in 1..Len(s) : s[i].arg # NaN /\ (s[i].arg < 0 \/ s[i].arg > One)

\* fault: np.all in place of np.any in the unique-mode check
NoUniqueModeAll(s) ==
    \A i \in 1..Len(s) : s[i].a <= ShapeUnit /\ s[i].b <= ShapeUnit

\* (a <= 1.) & (b <= 1.)
NoUniqueMode(s) ==
    \E i \in 1..Len(s) : s[i].a <= ShapeUnit /\ s[i].b <= ShapeUnit

\* the validation of the two interval routines: the first check that
\* fails names the error, "ok" when all pass
IntervalCheck(f, s) ==
    IF NonPositiveA(s) THEN "a must be positive"
    ELSE IF NonPositiveB(s) THEN "b must be positive"
    ELSE IF BadCoverage(s) THEN "coverage must be between 0 and 1"
    ELSE IF f = "beta_highest_density_interval" /\ NoUniqueMode(s)
         THEN "a or b must be greater than one"
    ELSE "ok"

\* the validation of beta_highest_density_coverage
CoverageCheck(s) ==
    IF NoUniqueMode(s) THEN "a or b must be greater than one" ELSE "ok"

\* fault: the upper bound is taken at the lower tail
EqualTailedIntervalSameTail(A, B, c) ==
    << BetaPpf2(A, B, One - c), BetaPpf2(A, B, One - c) >>

\* fault: the two tails are exchanged
EqualTailedIntervalSwapped(A, B, c) ==
    << BetaPpf2(A, B, One + c), BetaPpf2(A, B, One - c) >>

\* fault: the tails (1 - coverage) and (1 + coverage) are not halved
EqualTailedIntervalUnhalved(A, B, c) ==
    << BetaPpf(A, B, One - c), BetaPpf(A, B, One + c) >>

\* beta_equal_tailed_interval, one element: the pair (x, y)
EqualTailedInterval(A, B, c) ==
    << BetaPpf2(A, B, One - c), BetaPpf2(A, B, One + c) >>

\* fault: np.abs(0.5 - beta.cdf(x)) without the factor 2
EqualTailedCoverageUndoubled(A, B, i) ==
    IF BetaCdf(A, B, i) = NaN THEN NaN ELSE Abs(Half - BetaCdf(A, B, i))

\* beta_equal_tailed_coverage, one element: 2 * np.abs(0.5 - beta.cdf(x))
EqualTailedCoverage(A, B, i) ==
    IF BetaCdf(A, B, i) = NaN THEN NaN ELSE Abs(One - 2 * BetaCdf(A, B, i))

\* the initial bracket of beta_highest_density_interval
InitXLo(A, B, c) == BetaPpf(A, B, Max(BetaCdf(A, B, Mode(A, B)) - c, 0))

\* fault: x_hi is not capped by the mode
InitXHiUncapped(A, B, c) == BetaPpf(A, B, One - c)

InitXHi(A, B, c) == Min(Mode(A, B), BetaPpf(A, B, One - c))

\* (x_lo + x_hi) / 2., rounded to the grid
Midpoint(l, h) == (l + h) \div 2

\* fault: the coverage is not added to beta.cdf(x)
UpperRawWithoutCoverage(A, B, c, i) ==
    BetaPpf(A, B, Clip(BetaCdf(A, B, i), 0, One))

\* beta.ppf(np.clip(beta.cdf(x) + coverage, 0., 1.))
UpperRaw(A, B, c, i) == BetaPpf(A, B, Clip(BetaCdf(A, B, i) + c, 0, One))

\* fault: y is not clipped into [x, 1]
UpperUnclipped(A, B, c, i) == UpperRaw(A, B, c, i)

\* y = np.clip(y, x, 1.)
Upper(A, B, c, i) == Clip(UpperRaw(A, B, c, i), i, GridSize)

\* the initial bracket of beta_highest_density_coverage
XIsLowerEnd(e) == e.arg < Mode(e.a, e.b)
InitYLo(e) == IF XIsLowerEnd(e) THEN Mode(e.a, e.b) ELSE 0
\* fault: the upper end of the bracket is 1 on either side of the mode
InitYHiWhole(e) == GridSize

InitYHi(e) == IF XIsLowerEnd(e) THEN GridSize ELSE Mode(e.a, e.b)

\* fault: y_is_lo = x_is_lower_end != (x_pdf < y_pdf)
YIsLoInverted(e, j) == XIsLowerEnd(e) # PdfLt(e.a, e.b, e.arg, j)

\* y_is_lo = x_is_lower_end == (x_pdf < y_pdf)
YIsLo(e, j) == XIsLowerEnd(e) = PdfLt(e.a, e.b, e.arg, j)

\* beta.cdf(y) - beta.cdf(x) after ordering the two ends
Mass(A, B, l, h) ==
    IF BetaCdf(A, B, l) = NaN THEN NaN
    ELSE BetaCdf(A, B, h) - BetaCdf(A, B, l)

\* ------------------------------------------------------------------ inputs
Shapes == {-4, 0, 2, 4, 5, 8}

RECURSIVE PowFits(_, _)
PowFits(n, k) ==
    k = 0 \/ (PowFits(n, k - 1) /\ Pow(n, k - 1) <= IntMax \div n)

\* the shape pairs whose surrogate comparison stays within the integers
ShapePairs ==
    {p \in Shapes \X Shapes :
        PowFits(GridSize, Abs(ExpP(p[1], p[2])) + Abs(ExpQ(p[1], p[2])))}

ArgValues(f) == IF IsInterval(f) THEN (-1)..(One + 1) ELSE 0..GridSize

Elems(f) ==
    {[a |-> p[1], b |-> p[2], arg |-> v] : p \in ShapePairs, v \in ArgValues(f)}

\* the elements of array arguments
ArrayElems(f) ==
    IF IsInterval(f)
    THEN {[a |-> 8, b |-> 8, arg |-> Half], [a |-> 5, b |-> 8, arg |-> 0],
          [a |-> 4, b |-> 4, arg |-> Half], [a |-> 0, b |-> 8, arg |-> Half],
          [a |-> 8, b |-> 5, arg |-> One + 1], [a |-> 8, b |-> 8, arg |-> 1]}
    ELSE {[a |-> 8, b |-> 8, arg |-> GridSize \div 4],
          [a |-> 5, b |-> 8, arg |-> Mode(5, 8)],
          [a |-> 4, b |-> 4, arg |-> GridSize \div 2],
          [a |-> 0, b |-> 8, arg |-> GridSize \div 2],
          [a |-> 5, b |-> 8, arg |-> Mode(5, 8) + 4]}

RECURSIVE Arrays(_, _)
Arrays(f, n) ==
    IF n = 1 THEN {<<e>> : e \in ArrayElems(f)}
    ELSE {Append(s, e) : s \in Arrays(f, n - 1), e \in ArrayElems(f)}

Calls(f) ==
    {<<e>> : e \in Elems(f)} \cup UNION {Arrays(f, n) : n \in 2..MaxLen}

\* --------------------------------------------- binomial_confidence_interval
\* fault: the confidence is not checked
BinomialCheckWithoutConfidence(s) ==
    IF \E i \in 1..Len(s) : s[i].n_successes < 0
    THEN "n_successes must be greater than or equal to 0"
    ELSE IF \E i \in 1..Len(s) : s[i].n_total < 1
    THEN "n_total must be greater than or equal to 1"
    ELSE IF \E i \in 1..Len(s) : s[i].n_successes > s[i].n_total
    THEN "n_successes must be less than or equal to n_total"
    ELSE "ok"

\* the checks in the order of the code; each is "np.any(cond)"
BinomialCheck(s) ==
    IF \E i \in 1..Len(s) : s[i].n_successes < 0
    THEN "n_successes must be greater than or equal to 0"
    ELSE IF \E i \in 1..Len(s) : s[i].n_total < 1
    THEN "n_total must be greater than or equal to 1"
    ELSE IF \E i \in 1..Len(s) : s[i].confidence < 0 \/ s[i].confidence > One
    THEN "confidence must be between 0 and 1"
    ELSE IF \E i \in 1..Len(s) : s[i].n_successes > s[i].n_total
    THEN "n_successes must be less than or equal to n_total"
    ELSE "ok"

\* fault: the lower bound is taken at (1 + c)/2 like the upper one
BinomialLowerUpperTail(k, n, c) ==
    IF k = 0 THEN 0
    ELSE BetaPpf2(ShapeUnit * k, ShapeUnit * (n - k + 1), One + c)

\* np.where(n_successes == 0, 0.,
\*          beta(n_successes, n_total - n_successes + 1).ppf((1 - c)/2))
BinomialLower(k, n, c) ==
    IF k = 0 THEN 0
    ELSE BetaPpf2(ShapeUnit * k, ShapeUnit * (n - k + 1), One - c)

\* fault: the upper bound is taken at (1 - c)/2 like the lower one
BinomialUpperSameTail(k, n, c) ==
    IF k = n THEN GridSize
    ELSE BetaPpf2(ShapeUnit * (k + 1), ShapeUnit * (n - k), One - c)

\* np.where(n_successes == n_total, 1.,
\*          beta(n_successes + 1, n_total - n_successes).ppf(1 - (1 - c)/2))
BinomialUpper(k, n, c) ==
    IF k = n THEN GridSize
    ELSE BetaPpf2(ShapeUnit * (k + 1), ShapeUnit * (n - k), 2 * One - (One - c))

BinomialElems ==
    [n_successes : (-1)..(MaxTotal + 1), n_total : 0..MaxTotal,
     confidence : (-1)..(One + 1)]

BinomialArrayElems ==
    {[n_successes |-> 0, n_total |-> 1, confidence |-> Half],
     [n_successes |-> 1, n_total |-> 2, confidence |-> 0],
     [n_successes |-> 2, n_total |-> 2, confidence |-> One],
     [n_successes |-> 1, n_total |-> MaxTotal, confidence |-> Half + 1],
     [n_successes |-> 2, n_total |-> 1, confidence |-> Half],
     [n_successes |-> 1, n_total |-> 2, confidence |-> One + 1]}

RECURSIVE BinomialArrays(_)
BinomialArrays(n) ==
    IF n = 1 THEN {<<e>> : e \in BinomialArrayElems}
    ELSE {Append(s, e) : s \in BinomialArrays(n - 1), e \in BinomialArrayElems}

BinomialCalls ==
    {<<e>> : e \in BinomialElems} \cup UNION {BinomialArrays(n) : n \in 2..MaxLen}

\* ------------------------------------------------------------- dkw_epsilon
\* Values are fixed point with scale FQ.  n and confidence are sequences: a
\* scalar and an array of one element behave alike in this routine and
\* are a sequence of length 1.
Ln2 == 710          \* log(2) in fixed point

Inf == IntMax       \* np.inf

\* the whole part of log2(v) for a fixed-point v >= 1
RECURSIVE Log2Whole(_)
Log2Whole(v) == IF v < 2 * FQ THEN 0 ELSE 1 + Log2Whole(v \div 2)

\* v scaled into [1, 2)
RECURSIVE Mantissa(_)
Mantissa(v) == IF v < 2 * FQ THEN v ELSE Mantissa(v \div 2)

\* the fraction of log2(v) for v in [1, 2), bit by bit by squaring; w is
\* the weight of the next bit
RECURSIVE Log2Fraction(_, _)
Log2Fraction(v, w) ==
    IF w = 0 THEN 0
    ELSE LET sq == (v * v) \div FQ
         IN  IF sq >= 2 * FQ THEN w + Log2Fraction(sq \div 2, w \div 2)
             ELSE Log2Fraction(sq, w \div 2)

\* np.log(p / q) for p >= q > 0
Log(p, q) ==
    LET v == (p * FQ) \div q
    IN  ((Log2Whole(v) * FQ + Log2Fraction(Mantissa(v), FQ \div 2)) * Ln2) \div FQ

\* np.sqrt(np.log(2. / (1. - confidence)) / (2. * n)); at confidence 1 the
\* division by zero gives inf
DkwFormula(n, c) ==
    IF c = One THEN Inf
    ELSE Isqrt((Log(2 * One, One - c) * FQ) \div (2 * n))

\* the values of the formula, computed once
DkwTab == [n \in 1..MaxSamples |-> [c \in 0..One |-> DkwFormula(n, c)]]

DkwValue(n, c) == DkwTab[n][c]

\* "if n <= 0" takes the truth value of an array, which numpy refuses for
\* an array of more than one element; the confidence check is np.any
DkwCheck(n, c) ==
    IF Len(n) > 1
    THEN "the truth value of an array with more than one element is ambiguous"
    ELSE IF n[1] <= 0 THEN "n must be positive"
    ELSE IF \E i \in 1..Len(c) : c[i] < 0 \/ c[i] > One
    THEN "confidence must be between 0 and 1"
    ELSE "ok"

DkwSamples ==
    {<<n>> : n \in (-1)..MaxSamples}
        \cup {<<2, MaxSamples>>, <<1, 4>>, <<0, 2>>}

DkwConfidences ==
    {<<c>> : c \in (-1)..(One + 1)}
        \cup {<<0, Half>>, <<Half \div 2, One>>, <<Half, One + 1>>}

\* the shapes of n and confidence broadcast
DkwCalls ==
    {cl \in [n : DkwSamples, confidence : DkwConfidences] :
        Len(cl.n) = 1 \/ Len(cl.confidence) = 1 \/ Len(cl.n) = Len(cl.confidence)}

\* ------------------------------------------------------------ every routine
\* ------------------------------------------------------- sort_by_first
\* the one-dimensional arrays and the argument tuples of sort_by_first
SortArrays == UNION {[1..n -> 0..MaxValue] : n \in 0..MaxSize}

SortCalls == UNION {[1..k -> SortArrays] : k \in 0..MaxArgs}

\* fault: only an array shorter than the first is refused
ShapeMismatchShorter(as) == \E i \in 1..Len(as) : Len(as[i]) < Len(as[1])

\* "any(arg.shape != args[0].shape for arg in args)"
ShapeMismatch(as) == \E i \in 1..Len(as) : Len(as[i]) # Len(as[1])

Orderings(n) ==
    {p \in [1..n -> 1..n] : \A i, j \in 1..n : p[i] = p[j] => i = j}

\* np.argsort(arr) with the default kind, "quicksort", which is not stable:
\* any order of the indices that puts arr in ascending order
Argsort(arr) ==
    {p \in Orderings(Len(arr)) :
        \A i, j \in 1..Len(arr) : i < j => arr[p[i]] <= arr[p[j]]}

\* fault: the array is returned as it came
TakeNone(arr, sorting) == arr

\* arr[sorting]
Take(arr, sorting) == [i \in 1..Len(sorting) |-> arr[sorting[i]]]

\* ---------------------------------------------- equality of distributions
\* the classes of the values compared: the two families, a subclass of
\* each, and the classes of None, 1. and set()
Families == {"QuadraticDistribution", "NoisyQuadraticDistribution"}

Subclasses ==
    {"QuadraticDistributionSubclass", "NoisyQuadraticDistributionSubclass"}

Others == {"NoneType", "float", "set"}

\* the class a subclass derives from
Parent(cls) ==
    IF cls = "QuadraticDistributionSubclass" THEN "QuadraticDistribution"
    ELSE IF cls = "NoisyQuadraticDistributionSubclass"
         THEN "NoisyQuadraticDistribution"
    ELSE "object"

\* the parameters of the instances compared; o is 0 where the class has
\* no such field
DistBounds == {<< -1, 0 >>, << 0, 0 >>, << 0, 1 >>}

Instances(cls) ==
    {[cls |-> cls, a |-> ab[1], b |-> ab[2], c |-> c, convex |-> cv, o |-> o] :
        ab \in DistBounds, c \in {1, 2}, cv \in BOOLEAN,
        o \in (IF cls \in {"NoisyQuadraticDistribution",
                            "NoisyQuadraticDistributionSubclass"}
               THEN {1, 2} ELSE {0})}

Values ==
    UNION {Instances(cls) : cls \in Families \cup Subclasses}
    \cup {[cls |-> cls, a |-> 0, b |-> 0, c |-> 0, convex |-> FALSE, o |-> 0] :
            cls \in Others}

EqCalls == {<< v, w >> : v \in Values, w \in Values}

IsDistribution(v) == v.cls \in Families \cup Subclasses

\* isinstance(v, cls)
IsInstance(v, cls) == v.cls = cls \/ Parent(v.cls) = cls

\* fault: the classes must be the same, type(other) == type(self)
DunderEqSameType(self, other) ==
    IF ~IsDistribution(self) \/ other.cls # self.cls THEN "NotImplemented"
    ELSE IF /\ self.a = other.a /\ self.b = other.b /\ self.c = other.c
            /\ self.convex = other.convex /\ self.o = other.o
         THEN "True" ELSE "False"

\* self.__eq__(other): the fields are compared when other is an instance
\* of the class of self; None, 1. and set() know no distribution
DunderEq(self, other) ==
    IF ~IsDistribution(self) \/ ~IsInstance(other, self.cls)
    THEN "NotImplemented"
    ELSE IF /\ self.a = other.a /\ self.b = other.b /\ self.c = other.c
            /\ self.convex = other.convex /\ self.o = other.o
         THEN "True" ELSE "False"

\* v == w: the method of v, then the reflected method of w, then the
\* identity of the two objects, which are distinct
Equals(v, w) ==
    IF DunderEq(v, w) # "NotImplemented" THEN DunderEq(v, w) = "True"
    ELSE IF DunderEq(w, v) # "NotImplemented" THEN DunderEq(w, v) = "True"
    ELSE FALSE

Functions ==
    Routines \cup {"binomial_confidence_interval", "dkw_epsilon",
                   "sort_by_first", "__eq__"}

IsCoverage(f) ==
    f \in {"beta_equal_tailed_coverage", "beta_highest_density_coverage"}

Inputs(f) ==
    IF f \in Routines THEN Calls(f)
    ELSE IF f = "binomial_confidence_interval" THEN BinomialCalls
    ELSE IF f = "dkw_epsilon" THEN DkwCalls
    ELSE IF f = "sort_by_first" THEN SortCalls
    ELSE EqCalls

\* ------------------------------------------------------------------- state
VARIABLES
    fn,         \* the routine being called
    args,       \* its broadcast arguments: a sequence of [a, b, arg]
    atol,       \* the search tolerance
    pc,         \* "call", "loop", "done" or "raised"
    err,        \* the message of the error raised, "none" otherwise
    x_lo, x_hi, \* the bracket of beta_highest_density_interval
    x, y,       \* the midpoint and the other end
    y_lo, y_hi, \* the bracket of beta_highest_density_coverage
    n_iter,     \* the number of iterations to run
    iter,       \* the number of iterations run
    ret,        \* the value returned, one entry per element
    orig,       \* the x, or the result, of the caller's earlier call
    dist,       \* the distribution sampled: its a and b
    slot,       \* the process-wide default generator: an index into gens
    gens,       \* the generator objects: the seed and the variates drawn
    held,       \* per caller, the generator its sample call resolved
    trace       \* the calls completed, in the order they took effect

rng == << dist, slot, gens, held, trace >>

vars ==
    << fn, args, atol, pc, err, x_lo, x_hi, x, y, y_lo, y_hi, n_iter, iter,
       ret, orig, rng >>

search == << x_lo, x_hi, x, y, y_lo, y_hi, n_iter, iter >>

Idx == 1..Len(args)

\* ------------------------------------------------- sampling and reseeding
Callers == 1..MaxCallers
Seeds == 0..MaxSeed

\* the seed np.random.default_rng() takes from the system when given none
Entropy == MaxSeed + 1

\* the variates a generator can be asked for within MaxCalls calls
StreamLen == MaxCalls * MaxDraw + 1

\* the k-th uniform variate of the stream of a seed, in units of
\* 1 / Ticks: a generator repeats no variate within the calls modelled
Ticks == (Entropy + 1) * StreamLen
Uniform(seed, k) == seed * StreamLen + k

\* the quantile function of QuadraticDistribution(a, b, 2) at u / Ticks,
\* in units of 1 / Ticks: the constant a when a = b
Ppf(d, u) == d.a * Ticks + (d.b - d.a) * u

\* the sample of the given size drawn from a generator in state g
SampleOf(d, g, size) ==
    [j \in 1..size |-> Ppf(d, Uniform(g.seed, g.pos + j - 1))]

\* fault: the variates drawn are not consumed
AdvanceLost(g, size) == g

\* the state of a generator after size variates are drawn
Advance(g, size) == [g EXCEPT !.pos = @ + size]

\* fault: the seed given is dropped and the system's is taken
SeededFromEntropy(seed) == [seed |-> Entropy, pos |-> 0]

\* np.random.default_rng(seed)
Seeded(seed) == [seed |-> seed, pos |-> 0]

\* the generator each caller built for itself
OwnGenerator(c) == 1 + c

\* fault: the generator argument is ignored
ResolveDefault(c, own) == slot

\* generator if generator is not None else the default generator
Resolve(c, own) == IF own THEN OwnGenerator(c) ELSE slot

NoCall == [gen |-> 0, size |-> 0, own |-> FALSE]

Started == Len(trace) + Cardinality({c \in Callers : held[c] # NoCall})

\* no sampling goes on while the routines of utils are called
Unsampled ==
    /\ dist = [a |-> 0, b |-> 1]
    /\ slot = 1
    /\ gens = << Seeded(Entropy) >>
    /\ held = [c \in Callers |-> NoCall]
    /\ trace = << >>

Init ==
    /\ fn \in Functions
    /\ args \in Inputs(fn)
    /\ atol \in (IF IsHighestDensity(fn) THEN 1..MaxAtol ELSE {1})
    /\ pc = "call"
    /\ err = "none"
    /\ x_lo = << >> /\ x_hi = << >> /\ x = << >> /\ y = << >>
    /\ y_lo = << >> /\ y_hi = << >>
    /\ n_iter = 0 /\ iter = 0
    /\ ret = << >>
    /\ orig = << >>
    /\ Unsampled

\* beta_equal_tailed_interval(a, b, coverage)
BetaEqualTailedInterval ==
    /\ pc = "call" /\ fn = "beta_equal_tailed_interval"
    /\ LET chk == IntervalCheck(fn, args)
       IN  IF chk # "ok"
           THEN pc' = "raised" /\ err' = chk /\ ret' = ret
           ELSE /\ pc' = "done" /\ err' = err
                /\ ret' = [i \in Idx |->
                       EqualTailedInterval(args[i].a, args[i].b, args[i].arg)]
    /\ UNCHANGED << rng, fn, args, atol, search, orig >>

\* beta_equal_tailed_coverage(a, b, x): no argument is validated
BetaEqualTailedCoverage ==
    /\ pc = "call" /\ fn = "beta_equal_tailed_coverage"
    /\ pc' = "done"
    /\ ret' = [i \in Idx |->
           EqualTailedCoverage(args[i].a, args[i].b, args[i].arg)]
    /\ UNCHANGED << rng, fn, args, atol, err, search, orig >>

\* beta_highest_density_interval: validation and initial bracket
HDIntervalBegin ==
    /\ pc = "call" /\ fn = "beta_highest_density_interval"
    /\ LET chk == IntervalCheck(fn, args)
           lo0 == [i \in Idx |-> InitXLo(args[i].a, args[i].b, args[i].arg)]
           hi0 == [i \in Idx |-> InitXHi(args[i].a, args[i].b, args[i].arg)]
       IN  IF chk # "ok"
           THEN /\ pc' = "raised" /\ err' = chk
                /\ UNCHANGED << x_lo, x_hi, n_iter >>
           ELSE /\ pc' = "loop" /\ err' = err
                /\ x_lo' = lo0 /\ x_hi' = hi0
                /\ n_iter' = NIter(SeqMax([i \in Idx |-> hi0[i] - lo0[i]]), atol)
    /\ UNCHANGED << rng, fn, args, atol, x, y, y_lo, y_hi, iter, ret, orig >>

\* beta_highest_density_interval: one iteration of the binary search
HDIntervalStep ==
    /\ pc = "loop" /\ fn = "beta_highest_density_interval"
    /\ iter < n_iter
    /\ LET xs == [i \in Idx |-> Midpoint(x_lo[i], x_hi[i])]
           ys == [i \in Idx |-> Upper(args[i].a, args[i].b, args[i].arg, xs[i])]
       IN  /\ x' = xs /\ y' = ys
           /\ x_lo' = [i \in Idx |->
                  IF PdfLe(args[i].a, args[i].b, xs[i], ys[i])
                  THEN xs[i] ELSE x_lo[i]]
           /\ x_hi' = [i \in Idx |->
                  IF PdfLe(args[i].a, args[i].b, ys[i], xs[i])
                  THEN xs[i] ELSE x_hi[i]]
    /\ iter' = iter + 1
    /\ UNCHANGED << rng, fn, args, atol, pc, err, y_lo, y_hi, n_iter, ret, orig >>

\* beta_highest_density_interval: return x, y
HDIntervalReturn ==
    /\ pc = "loop" /\ fn = "beta_highest_density_interval"
    /\ iter = n_iter
    /\ pc' = "done"
    /\ ret' = [i \in Idx |-> << x[i], y[i] >>]
    /\ UNCHANGED << rng, fn, args, atol, err, search, orig >>

\* beta_highest_density_coverage: validation and initial bracket
HDCoverageBegin ==
    /\ pc = "call" /\ fn = "beta_highest_density_coverage"
    /\ LET chk == CoverageCheck(args)
           lo0 == [i \in Idx |-> InitYLo(args[i])]
           hi0 == [i \in Idx |-> InitYHi(args[i])]
       IN  IF chk # "ok"
           THEN /\ pc' = "raised" /\ err' = chk
                /\ UNCHANGED << y_lo, y_hi, n_iter >>
           ELSE /\ pc' = "loop" /\ err' = err
                /\ y_lo' = lo0 /\ y_hi' = hi0
                /\ n_iter' = NIter(SeqMax([i \in Idx |-> hi0[i] - lo0[i]]), atol)
    /\ UNCHANGED << rng, fn, args, atol, x_lo, x_hi, x, y, iter, ret, orig >>

\* beta_highest_density_coverage: one iteration of the binary search
HDCoverageStep ==
    /\ pc = "loop" /\ fn = "beta_highest_density_coverage"
    /\ iter < n_iter
    /\ LET ys == [i \in Idx |-> Midpoint(y_lo[i], y_hi[i])]
       IN  /\ y' = ys
           /\ y_lo' = [i \in Idx |-> IF YIsLo(args[i], ys[i]) THEN ys[i] ELSE y_lo[i]]
           /\ y_hi' = [i \in Idx |-> IF ~YIsLo(args[i], ys[i]) THEN ys[i] ELSE y_hi[i]]
    /\ iter' = iter + 1
    /\ UNCHANGED << rng, fn, args, atol, pc, err, x_lo, x_hi, x, n_iter, ret, orig >>

\* beta_highest_density_coverage: order the two ends and return the mass
HDCoverageReturn ==
    /\ pc = "loop" /\ fn = "beta_highest_density_coverage"
    /\ iter = n_iter
    /\ pc' = "done"
    /\ ret' = [i \in Idx |->
           IF XIsLowerEnd(args[i])
           THEN Mass(args[i].a, args[i].b, args[i].arg, y[i])
           ELSE Mass(args[i].a, args[i].b, y[i], args[i].arg)]
    /\ UNCHANGED << rng, fn, args, atol, err, search, orig >>

\* binomial_confidence_interval(n_successes, n_total, confidence)
BinomialConfidenceInterval ==
    /\ pc = "call" /\ fn = "binomial_confidence_interval"
    /\ LET chk == BinomialCheck(args)
       IN  IF chk # "ok"
           THEN pc' = "raised" /\ err' = chk /\ ret' = ret
           ELSE /\ pc' = "done" /\ err' = err
                /\ ret' = [i \in Idx |->
                       << BinomialLower(args[i].n_successes, args[i].n_total,
                                        args[i].confidence),
                          BinomialUpper(args[i].n_successes, args[i].n_total,
                                        args[i].confidence) >>]
    /\ UNCHANGED << rng, fn, args, atol, search, orig >>

\* dkw_epsilon(n, confidence)
DkwEpsilon ==
    /\ pc = "call" /\ fn = "dkw_epsilon"
    /\ LET chk == DkwCheck(args.n, args.confidence)
       IN  IF chk # "ok"
           THEN pc' = "raised" /\ err' = chk /\ ret' = ret
           ELSE /\ pc' = "done" /\ err' = err
                /\ ret' = [i \in 1..Len(args.confidence) |->
                       DkwValue(args.n[1], args.confidence[i])]
    /\ UNCHANGED << rng, fn, args, atol, search, orig >>

SortByFirst ==
    /\ pc = "call" /\ fn = "sort_by_first"
    /\ IF ShapeMismatch(args)
       THEN /\ pc' = "raised" /\ ret' = ret
            /\ err' = "All argument arrays must have the same shape."
       ELSE /\ pc' = "done" /\ err' = err
            /\ IF Len(args) = 0 THEN ret' = << >>
               ELSE \E sorting \in Argsort(args[1]) :
                       ret' = [i \in 1..Len(args) |-> Take(args[i], sorting)]
    /\ UNCHANGED << rng, fn, args, atol, search, orig >>

\* the comparison of two values, args[1] == args[2]
Eq ==
    /\ pc = "call" /\ fn = "__eq__"
    /\ pc' = "done"
    /\ ret' = << Equals(args[1], args[2]) >>
    /\ UNCHANGED << rng, fn, args, atol, err, search, orig >>

\* the caller asks again with the failures counted as the successes (the
\* symmetry test), keeping the first interval
Mirror ==
    /\ pc = "done" /\ fn = "binomial_confidence_interval" /\ orig = << >>
    /\ args' = [i \in Idx |->
           [args[i] EXCEPT !.n_successes = args[i].n_total - args[i].n_successes]]
    /\ orig' = ret
    /\ pc' = "call"
    /\ ret' = << >>
    /\ UNCHANGED << rng, fn, atol, err, search >>

\* the caller passes the coverage returned for x to the interval routine
\* of the same kind (the round trip of the tests)
RoundTrip ==
    /\ pc = "done" /\ IsCoverage(fn) /\ orig = << >>
    /\ fn' = (IF fn = "beta_equal_tailed_coverage"
              THEN "beta_equal_tailed_interval"
              ELSE "beta_highest_density_interval")
    /\ args' = [i \in Idx |-> [args[i] EXCEPT !.arg = ret[i]]]
    /\ orig' = [i \in Idx |-> args[i].arg]
    /\ pc' = "call"
    /\ x_lo' = << >> /\ x_hi' = << >> /\ x' = << >> /\ y' = << >>
    /\ y_lo' = << >> /\ y_hi' = << >>
    /\ n_iter' = 0 /\ iter' = 0
    /\ ret' = << >>
    /\ UNCHANGED << rng, atol, err >>

Next ==
    \/ BetaEqualTailedInterval
    \/ BetaEqualTailedCoverage
    \/ HDIntervalBegin
    \/ HDIntervalStep
    \/ HDIntervalReturn
    \/ HDCoverageBegin
    \/ HDCoverageStep
    \/ HDCoverageReturn
    \/ RoundTrip
    \/ BinomialConfidenceInterval
    \/ Mirror
    \/ DkwEpsilon
    \/ SortByFirst
    \/ Eq

Spec == Init /\ [][Next]_vars

\* ---------------------------------- the specification of the sampling
utils ==
    << fn, args, atol, pc, err, x_lo, x_hi, x, y, y_lo, y_hi, n_iter, iter,
       ret, orig >>

\* the default generator is seeded by the system, every caller has built
\* a generator of its own, and no call has been made
SampleInit ==
    /\ fn = "sample" /\ args = << >> /\ atol = 1 /\ pc = "call"
    /\ err = "none"
    /\ x_lo = << >> /\ x_hi = << >> /\ x = << >> /\ y = << >>
    /\ y_lo = << >> /\ y_hi = << >>
    /\ n_iter = 0 /\ iter = 0
    /\ ret = << >> /\ orig = << >>
    /\ dist \in {[a |-> 0, b |-> 1], [a |-> 0, b |-> 0]}
    /\ slot = 1
    /\ \E own \in [Callers -> Seeds] :
          gens = << Seeded(Entropy) >> \o [c \in Callers |-> Seeded(own[c])]
    /\ held = [c \in Callers |-> NoCall]
    /\ trace = << >>

\* set_seed(seed): a new generator takes the place of the default one
SetSeed(c, seed) ==
    /\ held[c] = NoCall /\ Started < MaxCalls
    /\ gens' = Append(gens, Seeded(seed))
    /\ slot' = Len(gens) + 1
    /\ trace' = Append(trace,
           [caller |-> c, op |-> "set_seed", own |-> FALSE,
            gen |-> Len(gens) + 1, seed |-> seed, pos |-> 0, size |-> 0,
            sample |-> << >>])
    /\ UNCHANGED << utils, dist, held >>

\* sample(size, generator): the generator to draw from is looked up
SampleBegin(c, size, own) ==
    /\ held[c] = NoCall /\ Started < MaxCalls
    /\ held' = [held EXCEPT ![c] =
           [gen |-> Resolve(c, own), size |-> size, own |-> own]]
    /\ UNCHANGED << utils, dist, slot, gens, trace >>

\* sample(size, generator): the variates are drawn, in one step of the
\* generator, and transformed
SampleDraw(c) ==
    /\ held[c] # NoCall
    /\ LET g == held[c].gen
       IN  /\ gens' = [gens EXCEPT ![g] = Advance(gens[g], held[c].size)]
           /\ trace' = Append(trace,
                  [caller |-> c, op |-> "sample", own |-> held[c].own,
                   gen |-> g, seed |-> gens[g].seed, pos |-> gens[g].pos,
                   size |-> held[c].size,
                   sample |-> SampleOf(dist, gens[g], held[c].size)])
    /\ held' = [held EXCEPT ![c] = NoCall]
    /\ UNCHANGED << utils, dist, slot >>

SampleNext ==
    \/ \E c \in Callers, seed \in Seeds : SetSeed(c, seed)
    \/ \E c \in Callers, size \in 1..MaxDraw, own \in BOOLEAN :
          SampleBegin(c, size, own)
    \/ \E c \in Callers : SampleDraw(c)

SampleSpec == SampleInit /\ [][SampleNext]_vars

\* the steps of the routines themselves; RoundTrip is the caller's
Run ==
    \/ BetaEqualTailedInterval
    \/ BetaEqualTailedCoverage
    \/ HDIntervalBegin
    \/ HDIntervalStep
    \/ HDIntervalReturn
    \/ HDCoverageBegin
    \/ HDCoverageStep
    \/ HDCoverageReturn
    \/ BinomialConfidenceInterval
    \/ DkwEpsilon
    \/ SortByFirst
    \/ Eq

\* a call that has started keeps running: the code is sequential and
\* nothing in it waits
FairSpec == Spec /\ WF_vars(Run)

\* ---------------------------------------------------------------- accuracy
\* the resolution of the evaluator: the largest step of the cdf between
\* neighbouring grid points (ppf(q) is exact to within one such step)
CdfStepTab ==
    [A \in ValidShapes, B \in ValidShapes |->
        CHOOSE d \in 0..One :
            /\ \E i \in 1..GridSize : CdfTab[A, B][i] - CdfTab[A, B][i - 1] = d
            /\ \A i \in 1..GridSize : CdfTab[A, B][i] - CdfTab[A, B][i - 1] <= d]

CdfStep(A, B) == CdfStepTab[A, B]

\* "approximately equal" points (np.isclose, assertAlmostEqual): within
\* twice the number of grid points per probability unit
CloseTol == 2 * (GridSize \div One)
Close(i, j) == Abs(i - j) <= CloseTol

Returned(f) == pc = "done" /\ fn = f
ValidShape(e) == e.a > 0 /\ e.b > 0

\* ------------------------------------------------------------------ claims

\* C1: the pair returned by beta_highest_density_interval encloses the
\* requested mass: cdf(hi) - cdf(lo) differs from coverage by less than the
\* resolution of the cdf.
C1_MassIsCoverage ==
    Returned("beta_highest_density_interval") =>
        \A i \in Idx :
            Abs(BetaCdf(args[i].a, args[i].b, ret[i][2])
                - BetaCdf(args[i].a, args[i].b, ret[i][1])
                - args[i].arg) < CdfStep(args[i].a, args[i].b)

\* a search of at least two iterations for an interior mode has returned a
\* proper interval for a coverage strictly between 0 and 1
C1_Witness ==
    /\ Returned("beta_highest_density_interval")
    /\ iter >= 2
    /\ \E i \in Idx :
          /\ 0 < args[i].arg /\ args[i].arg < One
          /\ ret[i][1] < Mode(args[i].a, args[i].b)
          /\ Mode(args[i].a, args[i].b) < ret[i][2]

\* C2: in every iteration of beta_highest_density_interval, and in the pair
\* it returns, lo <= hi <= 1, also when the upper endpoint computed from the
\* cdf rounds below x.
C2_Ordered ==
    /\ (fn = "beta_highest_density_interval" /\ pc = "loop" /\ iter > 0) =>
            \A i \in Idx : x[i] <= y[i] /\ y[i] <= GridSize
    /\ Returned("beta_highest_density_interval") =>
            \A i \in Idx : ret[i][1] <= ret[i][2] /\ ret[i][2] <= GridSize

\* the routine has returned for an element whose unclamped upper endpoint
\* fell below the lower one
C2_Witness ==
    /\ Returned("beta_highest_density_interval")
    /\ \E i \in Idx :
          UpperRaw(args[i].a, args[i].b, args[i].arg, ret[i][1]) < ret[i][1]

\* C3 as claimed: the bounds returned by beta_highest_density_interval
\* straddle the mode, lo <= m <= hi, for every coverage.
C3_StraddlesMode ==
    Returned("beta_highest_density_interval") =>
        \A i \in Idx :
            /\ ret[i][1] <= Mode(args[i].a, args[i].b)
            /\ Mode(args[i].a, args[i].b) <= ret[i][2]

\* C3 as amended: lo <= m, and hi is not below m by more than the cdf can
\* resolve: cdf(hi) >= cdf(m).
C3_StraddlesModeUpToResolution ==
    Returned("beta_highest_density_interval") =>
        \A i \in Idx :
            /\ ret[i][1] <= Mode(args[i].a, args[i].b)
            /\ BetaCdf(args[i].a, args[i].b, ret[i][2])
                   >= BetaCdf(args[i].a, args[i].b, Mode(args[i].a, args[i].b))

\* the routine has returned an upper bound below the mode
C3_Witness ==
    /\ Returned("beta_highest_density_interval")
    /\ \E i \in Idx : ret[i][2] < Mode(args[i].a, args[i].b)

\* C4: the interval of beta_highest_density_interval is no wider than the
\* one of beta_equal_tailed_interval for the same a, b and coverage (an
\* excess within the search tolerance at each end is allowed).
C4_NoWiderThanEqualTailed ==
    Returned("beta_highest_density_interval") =>
        \A i \in Idx :
            LET et == EqualTailedInterval(args[i].a, args[i].b, args[i].arg)
            IN  (ret[i][2] - ret[i][1]) - (et[2] - et[1]) <= 2 * atol

\* C5: beta_equal_tailed_interval returns (lo, hi) with cdf(lo) = (1 -
\* coverage)/2 and cdf(hi) = (1 + coverage)/2, hence cdf(hi) - cdf(lo) =
\* coverage, each to within the resolution of the cdf.
C5_EqualTails ==
    Returned("beta_equal_tailed_interval") =>
        \A i \in Idx :
            LET A == args[i].a
                B == args[i].b
                c == args[i].arg
            IN  /\ Abs(2 * BetaCdf(A, B, ret[i][1]) - (One - c)) < 2 * CdfStep(A, B)
                /\ Abs(2 * BetaCdf(A, B, ret[i][2]) - (One + c)) < 2 * CdfStep(A, B)
                /\ Abs(BetaCdf(A, B, ret[i][2]) - BetaCdf(A, B, ret[i][1]) - c)
                       < CdfStep(A, B)

\* a proper interval has been returned for a coverage strictly between 0
\* and 1
C5_Witness ==
    /\ Returned("beta_equal_tailed_interval")
    /\ \E i \in Idx :
          /\ 0 < args[i].arg /\ args[i].arg < One
          /\ 0 < ret[i][1] /\ ret[i][1] < ret[i][2] /\ ret[i][2] < GridSize

\* the x of a round trip lies strictly inside (0, 1)
Interior(i) == 0 < orig[i] /\ orig[i] < GridSize

\* C6 as claimed: beta_highest_density_interval applied to the coverage
\* that beta_highest_density_coverage returns for x in (0, 1) has x as an
\* endpoint: lo is close to x when x is below the mode, hi when above.
C6_RoundTrip ==
    (Returned("beta_highest_density_interval") /\ orig # << >>) =>
        \A i \in Idx :
            Interior(i) =>
                LET m == Mode(args[i].a, args[i].b)
                IN  /\ orig[i] < m => Close(ret[i][1], orig[i])
                    /\ orig[i] > m => Close(ret[i][2], orig[i])
                    /\ orig[i] = m =>
                          Close(ret[i][1], orig[i]) \/ Close(ret[i][2], orig[i])

\* C6 as amended: the endpoint on the side of x has the cdf of x to within
\* the search tolerance (atol grid steps of the cdf); it is x itself only
\* where the cdf resolves the points around x.
C6_RoundTripInCdf ==
    (Returned("beta_highest_density_interval") /\ orig # << >>) =>
        \A i \in Idx :
            Interior(i) =>
                LET A == args[i].a
                    B == args[i].b
                    m == Mode(A, B)
                    tol == atol * CdfStep(A, B)
                    dlo == Abs(BetaCdf(A, B, ret[i][1]) - BetaCdf(A, B, orig[i]))
                    dhi == Abs(BetaCdf(A, B, ret[i][2]) - BetaCdf(A, B, orig[i]))
                IN  /\ orig[i] < m => dlo <= tol
                    /\ orig[i] > m => dhi <= tol
                    /\ orig[i] = m => (dlo <= tol \/ dhi <= tol)

\* a round trip has returned, for an x below an interior mode, a lower
\* bound that is not close to x
C6_Witness ==
    /\ Returned("beta_highest_density_interval") /\ orig # << >>
    /\ \E i \in Idx :
          /\ Interior(i)
          /\ orig[i] < Mode(args[i].a, args[i].b)
          /\ Mode(args[i].a, args[i].b) < GridSize
          /\ ~Close(ret[i][1], orig[i])

\* x is below, at or above the median
BelowMedian(i) == 2 * BetaCdf(args[i].a, args[i].b, orig[i]) < One
AboveMedian(i) == 2 * BetaCdf(args[i].a, args[i].b, orig[i]) > One

\* C7 as claimed: beta_equal_tailed_interval applied to the coverage that
\* beta_equal_tailed_coverage returns for x in (0, 1) has x as an endpoint:
\* lo is close to x when x is below the median, hi when above.
C7_RoundTrip ==
    (Returned("beta_equal_tailed_interval") /\ orig # << >>) =>
        \A i \in Idx :
            Interior(i) =>
                /\ BelowMedian(i) => Close(ret[i][1], orig[i])
                /\ AboveMedian(i) => Close(ret[i][2], orig[i])
                /\ (~BelowMedian(i) /\ ~AboveMedian(i)) =>
                      Close(ret[i][1], orig[i]) \/ Close(ret[i][2], orig[i])

\* C7 as amended: the endpoint on the side of x has exactly the cdf of x;
\* it is x itself only where the cdf resolves the points around x.
C7_RoundTripInCdf ==
    (Returned("beta_equal_tailed_interval") /\ orig # << >>) =>
        \A i \in Idx :
            Interior(i) =>
                LET A == args[i].a
                    B == args[i].b
                    cx == BetaCdf(A, B, orig[i])
                IN  /\ BelowMedian(i) => BetaCdf(A, B, ret[i][1]) = cx
                    /\ AboveMedian(i) => BetaCdf(A, B, ret[i][2]) = cx
                    /\ (~BelowMedian(i) /\ ~AboveMedian(i)) =>
                          (BetaCdf(A, B, ret[i][1]) = cx
                              /\ BetaCdf(A, B, ret[i][2]) = cx)

\* a round trip has returned, for an x below the median, a lower bound
\* that is not close to x
C7_Witness ==
    /\ Returned("beta_equal_tailed_interval") /\ orig # << >>
    /\ \E i \in Idx :
          Interior(i) /\ BelowMedian(i) /\ ~Close(ret[i][1], orig[i])

\* C8: beta_highest_density_coverage yields coverage 0 when x is the mode,
\* and coverage 1 when x is 0 or 1 and is not the mode (each to within the
\* search tolerance).
C8_ModeAndBoundary ==
    Returned("beta_highest_density_coverage") =>
        \A i \in Idx :
            ValidShape(args[i]) =>
                LET A == args[i].a
                    B == args[i].b
                    tol == atol * CdfStep(A, B)
                IN  /\ args[i].arg = Mode(A, B) => ret[i] <= tol
                    /\ (args[i].arg \in {0, GridSize} /\ args[i].arg # Mode(A, B))
                          => ret[i] >= One - tol

\* C9: the two highest-density routines raise, before any iteration and
\* without a return value, whenever some element has a <= 1 and b <= 1.
C9_NoUniqueModeRaises ==
    (/\ IsHighestDensity(fn)
     /\ \E i \in Idx : args[i].a <= ShapeUnit /\ args[i].b <= ShapeUnit) =>
        /\ pc \in {"call", "raised"}
        /\ iter = 0
        /\ ret = << >>

\* an array call has raised in which one element has a <= 1 and b <= 1 and
\* another has a shape parameter above 1, all of them valid otherwise
C9_Witness ==
    /\ IsHighestDensity(fn) /\ pc = "raised"
    /\ err = "a or b must be greater than one"
    /\ Len(args) >= 2
    /\ \E i \in Idx : args[i].a <= ShapeUnit /\ args[i].b <= ShapeUnit
    /\ \E i \in Idx : args[i].a > ShapeUnit \/ args[i].b > ShapeUnit

\* C10: each of the four routines raises, before computing anything, when
\* some element of a or of b is not positive.
C10_NonPositiveShapeRaises ==
    (fn \in Routines /\ \E i \in Idx : args[i].a <= 0 \/ args[i].b <= 0) =>
        /\ pc \in {"call", "raised"}
        /\ iter = 0
        /\ ret = << >>

\* ------------------------------------------------- one element called alone
\* the loop of beta_highest_density_interval on one element: the pair
\* (x, y) of the n-th iteration from the bracket (l, h)
RECURSIVE IntervalSearch(_, _, _, _)
IntervalSearch(e, l, h, n) ==
    LET xs == Midpoint(l, h)
        ys == Upper(e.a, e.b, e.arg, xs)
        l2 == IF PdfLe(e.a, e.b, xs, ys) THEN xs ELSE l
        h2 == IF PdfLe(e.a, e.b, ys, xs) THEN xs ELSE h
    IN  IF n <= 1 THEN << xs, ys >> ELSE IntervalSearch(e, l2, h2, n - 1)

\* beta_highest_density_interval(a, b, coverage, atol) on scalars
ScalarInterval(e, tol) ==
    LET l == InitXLo(e.a, e.b, e.arg)
        h == InitXHi(e.a, e.b, e.arg)
    IN  IntervalSearch(e, l, h, NIter(h - l, tol))

\* the loop of beta_highest_density_coverage on one element: the y of the
\* n-th iteration from the bracket (l, h)
RECURSIVE CoverageSearch(_, _, _, _)
CoverageSearch(e, l, h, n) ==
    LET ys == Midpoint(l, h)
        l2 == IF YIsLo(e, ys) THEN ys ELSE l
        h2 == IF ~YIsLo(e, ys) THEN ys ELSE h
    IN  IF n <= 1 THEN ys ELSE CoverageSearch(e, l2, h2, n - 1)

\* beta_highest_density_coverage(a, b, x, atol) on scalars
ScalarCoverage(e, tol) ==
    LET l == InitYLo(e)
        h == InitYHi(e)
        ys == CoverageSearch(e, l, h, NIter(h - l, tol))
    IN  IF XIsLowerEnd(e) THEN Mass(e.a, e.b, e.arg, ys)
        ELSE Mass(e.a, e.b, ys, e.arg)

\* C11 as claimed: the value that the two highest-density routines return
\* at each position of an array call equals the value returned by a call
\* with that position's scalars and the same atol.
C11_ElementwiseEqual ==
    /\ Returned("beta_highest_density_interval") =>
           \A i \in Idx : ret[i] = ScalarInterval(args[i], atol)
    /\ Returned("beta_highest_density_coverage") =>
           \A i \in Idx : ret[i] = ScalarCoverage(args[i], atol)

\* C11 as amended: the number of iterations is computed from the widest
\* bracket of the call, so an element can be searched longer in an array
\* call than alone; the value at each position agrees with the scalar call
\* to within the search tolerance: the lower bound within atol, the upper
\* bound and the coverage within atol steps of the cdf.
C11_ElementwiseWithinTolerance ==
    /\ Returned("beta_highest_density_interval") =>
           \A i \in Idx :
               LET A == args[i].a
                   B == args[i].b
                   alone == ScalarInterval(args[i], atol)
               IN  /\ Abs(ret[i][1] - alone[1]) <= atol
                   /\ Abs(BetaCdf(A, B, ret[i][2]) - BetaCdf(A, B, alone[2]))
                          <= atol * CdfStep(A, B)
    /\ Returned("beta_highest_density_coverage") =>
           \A i \in Idx :
               ValidShape(args[i]) =>
                   Abs(ret[i] - ScalarCoverage(args[i], atol))
                       <= atol * CdfStep(args[i].a, args[i].b)

\* an array call has returned, at some position, a value other than the
\* one the scalar call returns
C11_Witness ==
    /\ pc = "done" /\ IsHighestDensity(fn) /\ Len(args) >= 2
    /\ \E i \in Idx :
          ValidShape(args[i])
              /\ ret[i] # (IF IsInterval(fn) THEN ScalarInterval(args[i], atol)
                           ELSE ScalarCoverage(args[i], atol))

\* the largest initial bracket width of the call in progress
BracketWidth ==
    SeqMax([i \in Idx |->
        IF IsInterval(fn)
        THEN InitXHi(args[i].a, args[i].b, args[i].arg)
                 - InitXLo(args[i].a, args[i].b, args[i].arg)
        ELSE InitYHi(args[i]) - InitYLo(args[i])])

\* n is the least count, at least 1, after which a bracket of width w
\* halved n times is within tol
IsIterationCount(n, w, tol) ==
    /\ n >= 1
    /\ tol * Pow(2, n) >= w
    /\ n > 1 => tol * Pow(2, n - 1) < w

\* C12: the binary searches of the two highest-density routines terminate:
\* n_iter is fixed before the loop, is the least count that brings the
\* widest bracket within atol and at least 1, does not change in the loop,
\* and the loop runs exactly n_iter times, after which the call returns.
C12_Terminates ==
    /\ []((IsHighestDensity(fn) /\ pc \in {"loop", "done"}) =>
             /\ IsIterationCount(n_iter, BracketWidth, atol)
             /\ iter <= n_iter
             /\ pc = "done" => iter = n_iter)
    /\ [][(IsHighestDensity(fn) /\ pc = "loop") =>
             /\ n_iter' = n_iter
             /\ pc' = "loop" => iter' = iter + 1
             /\ pc' # "loop" => (pc' = "done" /\ iter = n_iter)]_vars
    /\ (IsHighestDensity(fn) /\ pc = "call") ~> (pc \in {"done", "raised"})

\* a call whose brackets all have width 0 has returned after one iteration
C12_Witness ==
    /\ pc = "done" /\ IsHighestDensity(fn)
    /\ BracketWidth = 0
    /\ iter = 1

\* a binomial interval and the interval of the mirrored sample are both known
Mirrored == pc = "done" /\ fn = "binomial_confidence_interval" /\ orig # << >>

\* points i and j have the same cdf under Beta(A/ShapeUnit, B/ShapeUnit),
\* to within the resolution of the cdf
SameQuantile(A, B, i, j) ==
    Abs(BetaCdf(A, B, i) - BetaCdf(A, B, j)) <= CdfStep(A, B)

\* C13: binomial_confidence_interval is symmetric: with (lo, hi) the
\* interval for k successes of n and (lo2, hi2) the one for n - k of n at
\* the same confidence, lo = 1 - hi2 and hi = 1 - lo2: exactly when a
\* bound is forced to 0 or 1, and otherwise as the same quantile to within
\* the resolution of the cdf.
C13_Symmetric ==
    Mirrored =>
        \A i \in Idx :
            LET n == args[i].n_total
                k == n - args[i].n_successes
            IN  /\ IF k = 0
                   THEN orig[i][1] = 0 /\ ret[i][2] = GridSize
                   ELSE SameQuantile(ShapeUnit * k, ShapeUnit * (n - k + 1),
                                     orig[i][1], GridSize - ret[i][2])
                /\ IF k = n
                   THEN orig[i][2] = GridSize /\ ret[i][1] = 0
                   ELSE SameQuantile(ShapeUnit * (k + 1), ShapeUnit * (n - k),
                                     orig[i][2], GridSize - ret[i][1])

\* both intervals are known for a sample with successes and failures and a
\* confidence strictly between 0 and 1
C13_Witness ==
    /\ Mirrored
    /\ \E i \in Idx :
          /\ 0 < args[i].n_successes /\ args[i].n_successes < args[i].n_total
          /\ 0 < args[i].confidence /\ args[i].confidence < One
          /\ 0 < ret[i][1] /\ ret[i][1] < ret[i][2] /\ ret[i][2] < GridSize

\* i is the quantile of Beta(A/ShapeUnit, B/ShapeUnit) at probability h/2
\* (h in half units): the least point whose cdf reaches h/2, with 0 at
\* probability 0 and 1 at probability 1
IsQuantile(A, B, h, i) ==
    IF h <= 0 THEN i = 0
    ELSE IF h >= 2 * One THEN i = GridSize
    ELSE /\ 2 * BetaCdf(A, B, i) >= h
         /\ i > 0 => 2 * BetaCdf(A, B, i - 1) < h

\* C14: binomial_confidence_interval returns, per element, the lower bound
\* 0 when n_successes = 0 and else the Beta(n_successes, n_total -
\* n_successes + 1) quantile at (1 - confidence)/2, and the upper bound 1
\* when n_successes = n_total and else the Beta(n_successes + 1, n_total -
\* n_successes) quantile at 1 - (1 - confidence)/2.
C14_ClopperPearsonBounds ==
    (pc = "done" /\ fn = "binomial_confidence_interval") =>
        \A i \in Idx :
            LET k == args[i].n_successes
                n == args[i].n_total
                c == args[i].confidence
            IN  /\ IF k = 0 THEN ret[i][1] = 0
                   ELSE IsQuantile(ShapeUnit * k, ShapeUnit * (n - k + 1),
                                   One - c, ret[i][1])
                /\ IF k = n THEN ret[i][2] = GridSize
                   ELSE IsQuantile(ShapeUnit * (k + 1), ShapeUnit * (n - k),
                                   One + c, ret[i][2])

\* an array call has returned a forced lower bound at one position and an
\* interior quantile at another
C14_Witness ==
    /\ pc = "done" /\ fn = "binomial_confidence_interval" /\ Len(args) >= 2
    /\ \E i \in Idx :
          args[i].n_successes = 0 /\ ret[i][1] = 0 /\ ret[i][2] < GridSize
    /\ \E i \in Idx :
          /\ 0 < args[i].n_successes /\ args[i].n_successes < args[i].n_total
          /\ 0 < ret[i][1] /\ ret[i][2] < GridSize

\* the element is a valid input of binomial_confidence_interval
ValidSample(e) ==
    /\ 0 <= e.n_successes /\ e.n_successes <= e.n_total
    /\ e.n_total >= 1
    /\ 0 <= e.confidence /\ e.confidence <= One

\* C15: binomial_confidence_interval raises a validation error, and never
\* returns an interval, whenever some element violates 0 <= n_successes <=
\* n_total, n_total >= 1 or 0 <= confidence <= 1.
C15_InvalidSampleRaises ==
    (fn = "binomial_confidence_interval"
        /\ \E i \in Idx : ~ValidSample(args[i])) =>
        /\ pc \in {"call", "raised"}
        /\ ret = << >>
        /\ pc = "raised" => err # "none"

\* an array call with a valid and an invalid element has raised
C15_Witness ==
    /\ fn = "binomial_confidence_interval" /\ pc = "raised" /\ Len(args) >= 2
    /\ \E i \in Idx : ValidSample(args[i])
    /\ \E i \in Idx : ~ValidSample(args[i])

\* C16: every interval returned by binomial_confidence_interval and by
\* beta_equal_tailed_interval has lo <= hi, also at confidence or coverage
\* 0 and when a bound is forced to 0 or 1.
C16_Ordered ==
    (pc = "done"
        /\ fn \in {"binomial_confidence_interval", "beta_equal_tailed_interval"})
        => \A i \in Idx : ret[i][1] <= ret[i][2]

\* binomial_confidence_interval has returned for confidence 0 with neither
\* bound forced
C16_Witness ==
    /\ pc = "done" /\ fn = "binomial_confidence_interval"
    /\ \E i \in Idx :
          /\ args[i].confidence = 0
          /\ 0 < args[i].n_successes /\ args[i].n_successes < args[i].n_total

\* exp(l) for a fixed-point l >= 0, by its series; t is the k-th term
RECURSIVE ExpSeries(_, _, _)
ExpSeries(l, k, t) ==
    IF t = 0 THEN 0 ELSE t + ExpSeries(l, k + 1, (t * l) \div ((k + 1) * FQ))

Exp(l) == ExpSeries(l, 0, FQ)

\* v is sqrt(log(2 / (1 - c)) / (2 n)): exp(2 n v^2) (1 - c) = 2 to within
\* the rounding of the fixed point, and v is inf at c = 1
IsDkwEpsilon(n, c, v) ==
    IF c = One THEN v = Inf
    ELSE LET l == (v * v * 2 * n) \div FQ
         IN  Abs(Exp(l) * (One - c) - 2 * One * FQ) <= (2 * One * FQ) \div 32

\* the element of a broadcast sequence at position i
At(s, i) == IF Len(s) = 1 THEN s[1] ELSE s[i]

\* C17: dkw_epsilon accepts n as a positive integer or as an array of
\* positive integers and returns, without raising, for each element
\* sqrt(log(2 / (1 - confidence)) / (2 n)).
C17_AcceptsArrays ==
    (/\ fn = "dkw_epsilon"
     /\ \A i \in 1..Len(args.n) : args.n[i] > 0
     /\ \A i \in 1..Len(args.confidence) :
            0 <= args.confidence[i] /\ args.confidence[i] <= One) =>
        /\ pc # "raised"
        /\ pc = "done" =>
              /\ Len(ret) = Max(Len(args.n), Len(args.confidence))
              /\ \A i \in 1..Len(ret) :
                    IsDkwEpsilon(At(args.n, i), At(args.confidence, i), ret[i])

\* C18: dkw_epsilon raises, returning no value, when n <= 0 or some
\* confidence is outside [0, 1], and accepts every n > 0 with confidences
\* in [0, 1], both endpoints included.
C18_Validation ==
    fn = "dkw_epsilon" =>
        IF \/ \E i \in 1..Len(args.n) : args.n[i] <= 0
           \/ \E i \in 1..Len(args.confidence) :
                 args.confidence[i] < 0 \/ args.confidence[i] > One
        THEN pc \in {"call", "raised"} /\ ret = << >>
        ELSE pc \in {"call", "done"}

\* the number of places of s that hold v
Count(s, v) == Cardinality({k \in 1..Len(s) : s[k] = v})

C20_StableTies ==
    (fn = "sort_by_first" /\ pc = "done" /\ Len(args) > 0) =>
        \E p \in Orderings(Len(args[1])) :
            /\ \A i \in Idx :
                  ret[i] = [k \in 1..Len(args[i]) |-> args[i][p[k]]]
            /\ \A k, l \in 1..Len(args[1]) :
                  (k < l /\ args[1][p[k]] = args[1][p[l]]) => p[k] < p[l]

\* C21: sort_by_first raises a validation error, before sorting and
\* without returning an array, whenever the shape of some argument differs
\* from the shape of the first.
C21_ShapeMismatchRaises ==
    (fn = "sort_by_first" /\ \E i \in Idx : Len(args[i]) # Len(args[1])) =>
        /\ pc \in {"call", "raised"}
        /\ ret = << >>
        /\ pc = "raised" =>
              err = "All argument arrays must have the same shape."

\* a call with a second array longer than the first has raised
C21_Witness ==
    /\ fn = "sort_by_first" /\ pc = "raised"
    /\ Len(args) = 2 /\ Len(args[2]) > Len(args[1])

\* stats.beta(a, b).ppf(0.5), the median
Median(A, B) == BetaPpf(A, B, Half)

\* C22: beta_equal_tailed_interval contains the median for every coverage
\* in [0, 1], strictly for 0 < coverage < 1; at coverage 0 both bounds are
\* the median and at coverage 1 the interval is (0, 1).
C22_ContainsMedianStrictly ==
    Returned("beta_equal_tailed_interval") =>
        \A i \in Idx :
            LET e == args[i]
                med == Median(e.a, e.b)
            IN  /\ ret[i][1] <= med /\ med <= ret[i][2]
                /\ (0 < e.arg /\ e.arg < One) =>
                      ret[i][1] < med /\ med < ret[i][2]
                /\ e.arg = 0 => ret[i] = << med, med >>
                /\ e.arg = One => ret[i] = << 0, GridSize >>

\* C22 as amended: the median is contained for every coverage in [0, 1];
\* a bound may coincide with the median where the resolution cannot tell
\* the quantiles apart. At coverage 0 both bounds are the median and at
\* coverage 1 the interval is (0, 1).
C22_ContainsMedian ==
    Returned("beta_equal_tailed_interval") =>
        \A i \in Idx :
            LET e == args[i]
                med == Median(e.a, e.b)
            IN  /\ ret[i][1] <= med /\ med <= ret[i][2]
                /\ e.arg = 0 => ret[i] = << med, med >>
                /\ e.arg = One => ret[i] = << 0, GridSize >>

\* an interval of a coverage strictly between 0 and 1 has come back with
\* the median strictly inside
C22_Witness ==
    /\ Returned("beta_equal_tailed_interval")
    /\ \E i \in Idx :
          /\ 0 < args[i].arg /\ args[i].arg < One
          /\ ret[i][1] < Median(args[i].a, args[i].b)
          /\ Median(args[i].a, args[i].b) < ret[i][2]

\* the width of the bracket of element i as the search stands
Width(i) ==
    IF IsInterval(fn) THEN x_hi[i] - x_lo[i] ELSE y_hi[i] - y_lo[i]

\* C27: when the binary search of a highest-density routine has run its
\* n_iter iterations, the bracket of every element is strictly narrower
\* than atol, whatever the atol and the initial width, a width that is a
\* power of two times atol included.
C27_BracketBelowAtol ==
    (IsHighestDensity(fn) /\ pc = "done") =>
        \A i \in Idx : Width(i) < atol

\* the unnormalized beta density x**(a-1) * (1-x)**(b-1) at i/GridSize,
\* as the fraction DensityNum/DensityDen of its root of order
\* gcd(a-1, b-1), a monotone image; a zero DensityDen is +inf
DensityNum(A, B, i) ==
    (IF ExpP(A, B) > 0 THEN Pow(i, ExpP(A, B)) ELSE 1)
    * (IF ExpQ(A, B) > 0 THEN Pow(GridSize - i, ExpQ(A, B)) ELSE 1)

DensityDen(A, B, i) ==
    (IF ExpP(A, B) < 0 THEN Pow(i, -ExpP(A, B)) ELSE 1)
    * (IF ExpQ(A, B) < 0 THEN Pow(GridSize - i, -ExpQ(A, B)) ELSE 1)

\* the density at i is below the density at j
DensityLt(A, B, i, j) ==
    DensityNum(A, B, i) * DensityDen(A, B, j)
        < DensityNum(A, B, j) * DensityDen(A, B, i)

\* the surrogate orders every two points as the density does
SurrogateAgrees(A, B) ==
    \A i, j \in 0..GridSize :
        /\ PdfLt(A, B, i, j) <=> DensityLt(A, B, i, j)
        /\ (PdfLe(A, B, i, j) /\ PdfLe(A, B, j, i))
              <=> (~DensityLt(A, B, i, j) /\ ~DensityLt(A, B, j, i))

SurrogateAgreesTab == [pr \in ShapePairs |-> SurrogateAgrees(pr[1], pr[2])]

\* C28: the surrogate of the two highest-density searches agrees in sign
\* with the comparison of the densities, for every pair of shapes the
\* routines accept (a > 0, b > 0, a > 1 or b > 1) and all points x, y:
\* it is lower exactly when the density is, and equal exactly when the
\* density is.
C28_SurrogateAgrees ==
    (IsHighestDensity(fn) /\ pc \in {"loop", "done"}) =>
        \A i \in Idx :
            ValidShape(args[i]) =>
                SurrogateAgreesTab[<< args[i].a, args[i].b >>]

\* the bracket of every element lies between 0 and the mode, in order
BracketInOrder(lo, hi) ==
    \A i \in Idx :
        /\ 0 <= lo[i] /\ lo[i] <= hi[i]
        /\ hi[i] <= Mode(args[i].a, args[i].b)

\* the midpoint lies in the bracket it halves, no end moves outwards, and
\* an end is replaced by the midpoint, both when the surrogates are equal
BracketStep ==
    \A i \in Idx :
        /\ x_lo[i] <= x'[i] /\ x'[i] <= x_hi[i]
        /\ x_lo[i] <= x_lo'[i] /\ x_hi'[i] <= x_hi[i]
        /\ x_lo'[i] = x'[i] \/ x_hi'[i] = x'[i]
        /\ (PdfNum(args[i].a, args[i].b, x'[i]) * PdfDen(args[i].a, args[i].b, y'[i])
               = PdfNum(args[i].a, args[i].b, y'[i]) * PdfDen(args[i].a, args[i].b, x'[i]))
              => (x_lo'[i] = x'[i] /\ x_hi'[i] = x'[i])

\* C29: in the search of beta_highest_density_interval, before and after
\* every iteration 0 <= x_lo <= x_hi <= mode for every element, the
\* midpoint x lies in [x_lo, x_hi], x_lo never decreases, x_hi never
\* increases, and an iteration replaces at least one end by the midpoint,
\* so that the bracket after it is at most half as wide as before it.
C29_BracketHalves ==
    [][(fn = "beta_highest_density_interval" /\ pc = "loop") =>
          /\ BracketInOrder(x_lo, x_hi) /\ BracketInOrder(x_lo', x_hi')
          /\ pc' = "loop" =>
                /\ BracketStep
                /\ \A i \in Idx :
                      2 * (x_hi'[i] - x_lo'[i]) <= x_hi[i] - x_lo[i]]_vars

\* C29 as amended: the same, the bracket after an iteration being at most
\* half as wide as before it up to the rounding of the midpoint.
C29_BracketHalvesRounded ==
    [][(fn = "beta_highest_density_interval" /\ pc = "loop") =>
          /\ BracketInOrder(x_lo, x_hi) /\ BracketInOrder(x_lo', x_hi')
          /\ pc' = "loop" =>
                /\ BracketStep
                /\ \A i \in Idx :
                      2 * (x_hi'[i] - x_lo'[i]) <= x_hi[i] - x_lo[i] + 1]_vars

\* two iterations have run on a bracket that was wider than the
\* resolution, one end having moved and the other not
C29_Witness ==
    /\ fn = "beta_highest_density_interval" /\ pc = "loop" /\ iter >= 2
    /\ \E i \in Idx :
          /\ x_lo[i] < x_hi[i]
          /\ x_lo[i] > InitXLo(args[i].a, args[i].b, args[i].arg)
          /\ x_hi[i] < InitXHi(args[i].a, args[i].b, args[i].arg)

\* y is on the other side of the mode from x = e.arg
OppositeSide(e, j) ==
    IF XIsLowerEnd(e)
    THEN Mode(e.a, e.b) <= j /\ j <= GridSize
    ELSE 0 <= j /\ j <= Mode(e.a, e.b)

Family(v) == IF v.cls \in Subclasses THEN Parent(v.cls) ELSE v.cls

\* C23: equality of distributions is structural and independent of the
\* concrete class: two values of one family, built by the class or by a
\* subclass, are equal, in either order, exactly when a, b, c, convex (and
\* o) are all equal, and a distribution is never equal to a value that is
\* not a distribution.
C23_StructuralEquality ==
    (fn = "__eq__" /\ pc = "done") =>
        LET v == args[1]
            w == args[2]
        IN  /\ (IsDistribution(v) /\ IsDistribution(w) /\ Family(v) = Family(w)) =>
                  ret[1] = (/\ v.a = w.a /\ v.b = w.b /\ v.c = w.c
                            /\ v.convex = w.convex /\ v.o = w.o)
            /\ (IsDistribution(v) # IsDistribution(w)) => ret[1] = FALSE

\* a subclass instance compared with an instance of its base class of the
\* same parameters has been found equal
C23_Witness ==
    /\ fn = "__eq__" /\ pc = "done" /\ ret = << TRUE >>
    /\ args[1].cls \in Subclasses /\ args[2].cls = Parent(args[1].cls)

\* the calls of sample completed, as places of the trace
Samples == {i \in 1..Len(trace) : trace[i].op = "sample"}

\* those that drew from the default generator
DefaultSamples == {i \in Samples : ~trace[i].own}

\* the variates drawn from the generator of call i before call i
RECURSIVE DrawnBefore(_, _)
DrawnBefore(i, j) ==
    IF j = 0 THEN 0
    ELSE DrawnBefore(i, j - 1)
         + (IF j < i /\ j \in Samples /\ trace[j].gen = trace[i].gen
            THEN trace[j].size ELSE 0)

\* the sample of the given size that follows the first k variates of the
\* stream of a seed
Expected(seed, k, size) ==
    [j \in 1..size |-> Ppf(dist, Uniform(seed, k + j - 1))]

\* call j is the next call after call i to draw from the same generator
Consecutive(i, j) ==
    /\ i < j /\ trace[i].gen = trace[j].gen
    /\ \A k \in Samples : ~(i < k /\ k < j /\ trace[k].gen = trace[i].gen)

\* the samples of the default generator are those of the seed last set
\* and of the calls made since, and the same seed and the same call give
\* the same sample
Reproducible ==
    /\ \A i \in DefaultSamples, k \in 1..Len(trace) :
          (trace[k].op = "set_seed" /\ trace[k].gen = trace[i].gen) =>
              trace[i].sample =
                  Expected(trace[k].seed, DrawnBefore(i, Len(trace)),
                           trace[i].size)
    /\ \A i, j \in DefaultSamples, k, l \in 1..Len(trace) :
          (/\ trace[k].op = "set_seed" /\ trace[k].gen = trace[i].gen
           /\ trace[l].op = "set_seed" /\ trace[l].gen = trace[j].gen
           /\ trace[k].seed = trace[l].seed
           /\ DrawnBefore(i, Len(trace)) = DrawnBefore(j, Len(trace))
           /\ trace[i].size = trace[j].size) =>
              trace[i].sample = trace[j].sample

\* C24: sampling from the default generator is reproducible through
\* reseeding: after set_seed(s) the samples of the calls that give no
\* generator are a function of s and of those calls alone, the same seed
\* and the same call giving the same sample; two calls in a row with no
\* reseeding between them return different samples.
C24_ReproducibleByReseeding ==
    fn = "sample" =>
        /\ Reproducible
        /\ \A i, j \in DefaultSamples :
              Consecutive(i, j) => trace[i].sample # trace[j].sample

\* C24 as amended: the same, two calls in a row returning different
\* samples unless the distribution is a point mass (a = b), every sample
\* of which is the constant a.
C24_ReproducibleUnlessPointMass ==
    fn = "sample" =>
        /\ Reproducible
        /\ \A i, j \in DefaultSamples :
              Consecutive(i, j) =>
                  IF dist.a = dist.b
                  THEN \A k \in 1..trace[j].size :
                           trace[j].sample[k] = dist.a * Ticks
                  ELSE trace[i].sample # trace[j].sample

\* the same seed has been set twice and the same call made after each,
\* with the same sample, the distribution being no point mass
C24_Witness ==
    /\ fn = "sample" /\ dist.a # dist.b /\ Len(trace) = 4
    /\ trace[1].op = "set_seed" /\ trace[3].op = "set_seed"
    /\ trace[1].seed = trace[3].seed
    /\ 2 \in DefaultSamples /\ 4 \in DefaultSamples
    /\ trace[2].gen = trace[1].gen /\ trace[4].gen = trace[3].gen
    /\ trace[2].sample = trace[4].sample

\* the calls of sample that were given a generator
OwnSamples == {i \in Samples : trace[i].own}

\* C25: a call of sample that is given a generator draws from that
\* generator alone: it leaves the state of the default generator as it
\* was, what it returns depends on the state of the generator given only
\* (two generators in the same state give the same sample), and no
\* reseeding of the default generator changes it.
C25_ExplicitGeneratorOnly ==
    /\ [](fn = "sample" =>
            /\ \A i \in OwnSamples :
                  /\ trace[i].gen = OwnGenerator(trace[i].caller)
                  /\ trace[i].sample =
                        Expected(gens[OwnGenerator(trace[i].caller)].seed,
                                 DrawnBefore(i, Len(trace)), trace[i].size)
            /\ \A i, j \in OwnSamples :
                  (/\ trace[i].seed = trace[j].seed
                   /\ trace[i].pos = trace[j].pos
                   /\ trace[i].size = trace[j].size) =>
                      trace[i].sample = trace[j].sample)
    /\ [][\A c \in Callers :
            (fn = "sample" /\ held[c].own /\ held'[c] = NoCall) =>
                /\ slot' = slot
                /\ gens'[slot] = gens[slot]
                /\ Len(trace') = Len(trace) + 1]_vars

\* two callers have each drawn a sample of the same size from generators
\* of their own in the same state, the default generator having been
\* reseeded between the two calls, and the samples are the same
C25_Witness ==
    /\ fn = "sample" /\ dist.a # dist.b /\ Len(trace) = 3
    /\ 1 \in OwnSamples /\ 3 \in OwnSamples /\ trace[2].op = "set_seed"
    /\ trace[1].caller # trace[3].caller
    /\ trace[1].sample = trace[3].sample

\* the variates caller c drew from its own generator before call i
RECURSIVE OwnDrawnBefore(_, _, _)
OwnDrawnBefore(c, i, j) ==
    IF j = 0 THEN 0
    ELSE OwnDrawnBefore(c, i, j - 1)
         + (IF j < i /\ j \in OwnSamples /\ trace[j].caller = c
            THEN trace[j].size ELSE 0)

\* all the variates drawn from generator g
RECURSIVE DrawnFrom(_, _)
DrawnFrom(g, j) ==
    IF j = 0 THEN 0
    ELSE DrawnFrom(g, j - 1)
         + (IF j \in Samples /\ trace[j].gen = g THEN trace[j].size ELSE 0)

\* C26: however the calls of the callers interleave, a caller that gives
\* its own generator gets the samples it gets when it runs alone, and the
\* callers that share the default generator get the stream of that
\* generator in some interleaving, uncorrupted: every variate drawn from
\* it goes to exactly one call.
C26_InterleavingSafe ==
    fn = "sample" =>
        /\ \A i \in OwnSamples :
              trace[i].sample =
                  Expected(gens[OwnGenerator(trace[i].caller)].seed,
                           OwnDrawnBefore(trace[i].caller, i, Len(trace)),
                           trace[i].size)
        /\ \A i \in DefaultSamples :
              /\ trace[i].pos = DrawnBefore(i, Len(trace))
              /\ trace[i].sample =
                    Expected(gens[trace[i].gen].seed, trace[i].pos,
                             trace[i].size)
        /\ \A g \in 1..Len(gens) : gens[g].pos = DrawnFrom(g, Len(trace))

\* two callers have drawn from the same default generator, the second
\* having looked the generator up before the first drew, and a caller has
\* drawn from its own generator as well
C26_Witness ==
    /\ fn = "sample" /\ dist.a # dist.b
    /\ \E i, j \in DefaultSamples :
          /\ i < j /\ trace[i].caller # trace[j].caller
          /\ trace[i].gen = trace[j].gen
          /\ trace[j].pos = trace[i].size
    /\ OwnSamples # {}
    /\ \E c \in Callers : held[c] # NoCall

====
